---- MODULE Spec2Model ----
(***************************************************************************)
(* Agent Identity middleware for FastAPI                                   *)
(* (landing/docs/integrations/fastapi-middleware.py).                      *)
(*                                                                         *)
(* State: the wall clock, the module-level _cache dictionary, and one      *)
(* record per request handled by the event loop (its gate, its headers,    *)
(* its position in verify_agent and what it has produced).                 *)
(*                                                                         *)
(* A request suspends where the code awaits: in client.get (line 64,       *)
(* "calling", then "ready" once the reply has arrived and the coroutine    *)
(* waits to be resumed) and in the exit of `async with` (line 63,          *)
(* "closing", after lines 69-85 have run).  Everything between two awaits  *)
(* is one atomic step of the single-threaded event loop.                   *)
(*                                                                         *)
(* Assumptions: AsyncClient's __aenter__/__aexit__ do not raise; the clock *)
(* does not run backwards; time is counted in units of half the cache      *)
(* time-to-live (150 s); reputation scores are whole numbers.              *)
(***************************************************************************)
EXTENDS Integers, Sequences, FiniteSets, TLC

VARIABLES now, cache, req

vars == <<now, cache, req>>

\* CACHE_TTL = timedelta(minutes=5), in clock units of 150 s.
CACHE_TTL == 2

\* response.status_code != 200
HTTP_OK == 200

\* The threshold of the example application: require_reputation(4.0).
MIN_REPUTATION == 4

\* The clock stops at MaxNow.
MaxNow == 3

\* Request slots of the sequential and of the concurrent specification.
Reqs == {"r1"}

ConcReqs == {"r1", "r2"}

AllReqs == Reqs \cup ConcReqs

DIDs == {"did:x:1", "did:x:2"}

Reputations == {3, 4, 5}

-----------------------------------------------------------------------------
(* Python values *)

\* Optional[T]: None, or a value.
None == <<>>

Some(x) == <<x>>

\* bool() of an Optional[str]: None and "" are falsy.
StrTruthy(o) == o # None /\ o # Some("")

\* PyOr with the operands in the other order (`b or a`).
PyOr_FallbackFirst(a, b) == IF StrTruthy(b) THEN b ELSE a

\* `a or b` on Optional[str].
PyOr(a, b) == IF StrTruthy(a) THEN a ELSE b

\* bool() of an Optional[AgentIdentity]: a BaseModel instance is truthy.
AgentTruthy(o) == o # None

\* What a header parameter can hold: None (header not sent), "" (sent
\* empty), or an identifier.
HeaderValues == {None, Some("")} \cup {Some(d) : d \in DIDs}

(* JSON values of a response body, tagged with their JSON type *)
JBool(b) == <<"bool", b>>

JNum(n) == <<"num", n>>

JStr(s) == <<"str", s>>

JNull == <<"null">>

\* bool() of a JSON value.
JTruthy(j) ==
    CASE j[1] = "bool" -> j[2]
      [] j[1] = "num" -> j[2] # 0
      [] j[1] = "str" -> j[2] # ""
      [] OTHER -> FALSE

\* dict.get(key): None when the key is missing.
DictGet(data, key) == IF key \in DOMAIN data THEN data[key] ELSE JNull

-----------------------------------------------------------------------------
(* class AgentIdentity(BaseModel) *)

FieldType ==
    [verified |-> "bool", did |-> "str", name |-> "str",
     reputation |-> "float", tasks_completed |-> "int",
     registered_at |-> "str", flags |-> "int", verification_url |-> "str"]

FieldNames == DOMAIN FieldType

\* The numeric strings the validation parses.
StrNum == ("3" :> 3) @@ ("4" :> 4) @@ ("5" :> 5)

StrBool == ("true" :> TRUE) @@ ("false" :> FALSE)

\* Whether pydantic accepts JSON value j for a field of the given type.
CanCoerce(type, j) ==
    CASE type = "bool" ->
            \/ j[1] = "bool"
            \/ j[1] = "str" /\ j[2] \in DOMAIN StrBool
            \/ j[1] = "num" /\ j[2] \in {0, 1}
      [] type = "str" -> j[1] = "str"
      [] OTHER ->
            \/ j[1] = "num"
            \/ j[1] = "str" /\ j[2] \in DOMAIN StrNum

\* The field value pydantic builds from an accepted JSON value.
Coerce(type, j) ==
    CASE type = "bool" ->
            IF j[1] = "bool" THEN j[2]
            ELSE IF j[1] = "str" THEN StrBool[j[2]] ELSE j[2] = 1
      [] type = "str" -> j[2]
      [] OTHER -> IF j[1] = "num" THEN j[2] ELSE StrNum[j[2]]

\* AgentIdentity(**data) raises ValidationError unless every field is there
\* and acceptable; keys that are no field are ignored.
ValidationOk(data) ==
    /\ FieldNames \subseteq DOMAIN data
    /\ \A f \in FieldNames : CanCoerce(FieldType[f], data[f])

\* AgentIdentity taking the reputation from tasks_completed.
AgentIdentity_WrongField(data) ==
    [f \in FieldNames |->
        IF f = "reputation"
        THEN Coerce(FieldType[f], data["tasks_completed"])
        ELSE Coerce(FieldType[f], data[f])]

\* The record built from a body that validates.
AgentIdentity(data) == [f \in FieldNames |-> Coerce(FieldType[f], data[f])]

-----------------------------------------------------------------------------
(* What the remote service can answer to GET /verify/{did} *)

ApprovedBody(did, rep) ==
    [verified |-> JBool(TRUE), did |-> JStr(did), name |-> JStr("agent"),
     reputation |-> JNum(rep), tasks_completed |-> JNum(7),
     registered_at |-> JStr("2026-01-01"), flags |-> JNum(0),
     verification_url |-> JStr("https://agent-identity.onrender.com/verify")]

DeniedBody == [verified |-> JBool(FALSE)]

\* A body with no "verified" key.
UnknownBody == [error |-> JStr("not found")]

\* verified is true but fields of the record are missing.
IncompleteBody(did) == [verified |-> JBool(TRUE), did |-> JStr(did)]

\* The reputation comes as a numeric string.
LaxBody(did) == [ApprovedBody(did, 4) EXCEPT !.reputation = JStr("4")]

\* The flag comes as the string "false", which is truthy.
StringFlagBody(did) == [ApprovedBody(did, 4) EXCEPT !.verified = JStr("false")]

Bodies(did) ==
    {ApprovedBody(did, rep) : rep \in Reputations}
        \cup {DeniedBody, UnknownBody, IncompleteBody(did), LaxBody(did),
              StringFlagBody(did)}

\* exc: client.get raised (network failure, timeout).  json_ok: the body
\* parses as a JSON object (otherwise response.json() or data.get raises).
NoResponse == [exc |-> FALSE, status_code |-> 0, json_ok |-> FALSE, data |-> <<>>]

Raised == [NoResponse EXCEPT !.exc = TRUE]

Status(code) == [NoResponse EXCEPT !.status_code = code]

Malformed == [NoResponse EXCEPT !.status_code = HTTP_OK]

Answer(body) == [NoResponse EXCEPT !.status_code = HTTP_OK, !.json_ok = TRUE, !.data = body]

Responses(did) ==
    {Raised, Status(500), Malformed} \cup {Answer(b) : b \in Bodies(did)}

\* The answers of the concurrent specification.
FewResponses(did) == {Raised, Answer(ApprovedBody(did, 4)), Answer(DeniedBody)}

-----------------------------------------------------------------------------
(* verify_agent *)

\* CacheFresh with a cached absence taken for a miss (`if cached_data and`).
CacheFresh_SkipNegative(did) ==
    /\ did \in DOMAIN cache
    /\ cache[did][2] # None
    /\ now < cache[did][1] + CACHE_TTL

\* CacheFresh with the boundary served from the cache (`<=` for `<`).
CacheFresh_Inclusive(did) ==
    /\ did \in DOMAIN cache
    /\ now <= cache[did][1] + CACHE_TTL

\* Lines 57-59: the identifier has an entry that is still fresh.
CacheFresh(did) ==
    /\ did \in DOMAIN cache
    /\ now < cache[did][1] + CACHE_TTL

\* CachePut dropping the entries that have expired.
CachePut_Evict(did, data) ==
    [k \in {j \in DOMAIN cache : now < cache[j][1] + CACHE_TTL} \cup {did} |->
        IF k = did THEN <<now, data>> ELSE cache[k]]

\* CachePut not replacing a fresh record by an absence.
CachePut_KeepRecord(did, data) ==
    IF data = None /\ CacheFresh(did) /\ cache[did][2] # None THEN cache
    ELSE [k \in DOMAIN cache \cup {did} |-> IF k = did THEN <<now, data>> ELSE cache[k]]

\* CachePut keeping a fresh entry another request wrote (write only on a
\* miss).
CachePut_KeepFresh(did, data) ==
    IF CacheFresh(did) THEN cache
    ELSE [k \in DOMAIN cache \cup {did} |-> IF k = did THEN <<now, data>> ELSE cache[k]]

\* _cache[did] = (datetime.now(), data)
CachePut(did, data) ==
    [k \in DOMAIN cache \cup {did} |-> IF k = did THEN <<now, data>> ELSE cache[k]]

\* Lines 69-85 on a response: "raise" (caught by line 83), "status"
\* (line 69), "approved" (line 75) or "denied" (line 79).
Branch(resp) ==
    IF resp.exc THEN "raise"
    ELSE IF resp.status_code # HTTP_OK THEN "status"
    ELSE IF ~resp.json_ok THEN "raise"
    ELSE IF JTruthy(DictGet(resp.data, "verified"))
         THEN IF ValidationOk(resp.data) THEN "approved" ELSE "raise"
         ELSE "denied"

\* What verify_agent returns on a response.
VerifyResult(resp) ==
    IF Branch(resp) = "approved" THEN Some(AgentIdentity(resp.data)) ELSE None

\* VerifyCaches with the denial not cached.
VerifyCaches_OnlyApproved(resp) == Branch(resp) = "approved"

\* VerifyCaches with the failed call cached as a denial.
VerifyCaches_AlsoFailed(resp) == Branch(resp) \in {"approved", "denied", "raise"}

\* VerifyCaches with the non-success status cached as a denial.
VerifyCaches_AlsoStatus(resp) == Branch(resp) \in {"approved", "denied", "status"}

\* Whether verify_agent writes the cache on a response.
VerifyCaches(resp) == Branch(resp) \in {"approved", "denied"}

-----------------------------------------------------------------------------
(* The gates *)

Gates == {"require", "optional", "reputation"}

\* raise HTTPException(status_code, detail); yields: the dependency returns.
NoOutcome ==
    [kind |-> "none", status_code |-> 0, error |-> "", message |-> <<>>,
     did |-> None, your_reputation |-> None, value |-> None]

Yield(agent) == [NoOutcome EXCEPT !.kind = "yield", !.value = agent]

\* Lines 99-106.
IdentityRequired ==
    [NoOutcome EXCEPT !.kind = "raise", !.status_code = 401,
                      !.error = "Agent identity required",
                      !.message = <<"Include X-Agent-DID header with your agent's DID">>]

\* Lines 111-119.
NotVerified(agent_did) ==
    [NoOutcome EXCEPT !.kind = "raise", !.status_code = 401,
                      !.error = "Agent not verified",
                      !.message = <<"The provided DID is not registered or verified">>,
                      !.did = agent_did]

\* Lines 151-159.
InsufficientReputation(agent, min_reputation) ==
    [NoOutcome EXCEPT !.kind = "raise", !.status_code = 403,
                      !.error = "Insufficient reputation",
                      !.message = <<"This endpoint requires minimum ",
                                    min_reputation, " reputation">>,
                      !.your_reputation = Some(agent.reputation),
                      !.did = Some(agent.did)]

\* RequireAgentTail answering an unverified identifier like a missing one:
\* the signal of lines 99-106, which does not carry the identifier.
RequireAgentTail_AsMissing(agent_did, agent) ==
    IF ~AgentTruthy(agent) THEN IdentityRequired ELSE Yield(agent)

\* require_agent after verify_agent has returned (lines 110-121).
RequireAgentTail(agent_did, agent) ==
    IF ~AgentTruthy(agent) THEN NotVerified(agent_did) ELSE Yield(agent)

\* ReputationTail comparing before it looks at what require_agent gave: a
\* missing record counts as reputation 0.
ReputationTail_CompareFirst(outcome, min_reputation) ==
    IF outcome.kind = "yield"
    THEN IF outcome.value[1].reputation < min_reputation
         THEN InsufficientReputation(outcome.value[1], min_reputation)
         ELSE Yield(outcome.value)
    ELSE IF 0 < min_reputation
         THEN [outcome EXCEPT !.status_code = 403,
                              !.error = "Insufficient reputation",
                              !.your_reputation = Some(0)]
         ELSE outcome

\* ReputationTail refusing a score equal to the threshold (`<=` for `<`).
ReputationTail_Inclusive(outcome, min_reputation) ==
    IF outcome.kind # "yield" THEN outcome
    ELSE IF outcome.value[1].reputation <= min_reputation
         THEN InsufficientReputation(outcome.value[1], min_reputation)
         ELSE Yield(outcome.value)

\* require_reputation(min_reputation).dependency on what require_agent gave.
ReputationTail(outcome, min_reputation) ==
    IF outcome.kind # "yield" THEN outcome
    ELSE IF outcome.value[1].reputation < min_reputation
         THEN InsufficientReputation(outcome.value[1], min_reputation)
         ELSE Yield(outcome.value)

\* GateTail with the optional gate refusing like the required one.
GateTail_OptionalAsRequire(gate, agent_did, agent) ==
    IF gate = "reputation"
    THEN ReputationTail(RequireAgentTail(agent_did, agent), MIN_REPUTATION)
    ELSE RequireAgentTail(agent_did, agent)

\* What the gate gives once verify_agent has returned `agent`.
GateTail(gate, agent_did, agent) ==
    CASE gate = "require" -> RequireAgentTail(agent_did, agent)
      [] gate = "optional" -> Yield(agent)
      [] OTHER -> ReputationTail(RequireAgentTail(agent_did, agent), MIN_REPUTATION)

\* GateNoIdentity letting the request through without an identity.
GateNoIdentity_Open(gate) == Yield(None)

\* What the gate gives when no identifier was extracted (lines 98-106, 134).
GateNoIdentity(gate) ==
    IF gate = "optional" THEN Yield(None) ELSE IdentityRequired

-----------------------------------------------------------------------------
(* Requests *)

\* via: how verify_agent answered: "none" (not invoked), "cache", "remote".
\* known: what `did in _cache` gave on line 57.  calls: the remote calls
\* this request has issued.  behind: when this request issued its call,
\* another request had a call for the same identifier in flight.
Idle ==
    [pc |-> "idle", gate |-> "none", x_agent_did |-> None,
     x_agent_identity |-> None, agent_did |-> None, via |-> "none",
     known |-> FALSE, calls |-> 0, behind |-> FALSE, resp |-> NoResponse,
     ret |-> None, out |-> NoOutcome]

Init ==
    /\ now = 0
    /\ cache = <<>>
    /\ req = [r \in AllReqs |-> Idle]

\* The framework has read the headers and is about to run the dependency.
Receive(r, gate, h1, h2) ==
    /\ req[r].pc = "idle"
    /\ req' = [req EXCEPT ![r] = [Idle EXCEPT !.pc = "received", !.gate = gate,
                                              !.x_agent_did = h1,
                                              !.x_agent_identity = h2]]
    /\ UNCHANGED <<now, cache>>

\* Enter with a sliding expiry: a hit sets the entry's time to now.
Enter_Sliding(r) ==
    /\ req[r].pc = "received"
    /\ LET agent_did == PyOr(req[r].x_agent_did, req[r].x_agent_identity)
           base == [req[r] EXCEPT !.agent_did = agent_did]
       IN  \/ /\ ~StrTruthy(agent_did)
              /\ req' = [req EXCEPT ![r] =
                            [base EXCEPT !.pc = "done",
                                         !.out = GateNoIdentity(req[r].gate)]]
              /\ cache' = cache
           \/ /\ StrTruthy(agent_did)
              /\ CacheFresh(agent_did[1])
              /\ LET cached_data == cache[agent_did[1]][2]
                 IN  /\ req' = [req EXCEPT ![r] =
                                   [base EXCEPT !.pc = "done", !.via = "cache",
                                                !.known = TRUE,
                                                !.ret = cached_data,
                                                !.out = GateTail(req[r].gate, agent_did,
                                                                 cached_data)]]
                     /\ cache' = CachePut(agent_did[1], cached_data)
           \/ /\ StrTruthy(agent_did)
              /\ ~CacheFresh(agent_did[1])
              /\ req' = [req EXCEPT ![r] =
                            [base EXCEPT !.pc = "calling", !.via = "remote",
                                         !.known = agent_did[1] \in DOMAIN cache,
                                         !.calls = req[r].calls + 1]]
              /\ cache' = cache
    /\ UNCHANGED now

\* The dependency runs up to its first suspension: header extraction
\* (lines 96, 132), then verify_agent up to the cache check or client.get.
Enter(r) ==
    /\ req[r].pc = "received"
    /\ LET agent_did == PyOr(req[r].x_agent_did, req[r].x_agent_identity)
           base == [req[r] EXCEPT !.agent_did = agent_did]
       IN  \/ /\ ~StrTruthy(agent_did)
              /\ req' = [req EXCEPT ![r] =
                            [base EXCEPT !.pc = "done",
                                         !.out = GateNoIdentity(req[r].gate)]]
           \/ /\ StrTruthy(agent_did)
              /\ CacheFresh(agent_did[1])
              /\ LET cached_data == cache[agent_did[1]][2]
                 IN  req' = [req EXCEPT ![r] =
                                [base EXCEPT !.pc = "done", !.via = "cache",
                                             !.known = TRUE,
                                             !.ret = cached_data,
                                             !.out = GateTail(req[r].gate, agent_did,
                                                              cached_data)]]
           \/ /\ StrTruthy(agent_did)
              /\ ~CacheFresh(agent_did[1])
              /\ req' = [req EXCEPT ![r] =
                            [base EXCEPT !.pc = "calling", !.via = "remote",
                                         !.known = agent_did[1] \in DOMAIN cache,
                                         !.calls = req[r].calls + 1,
                                         !.behind =
                                            \E q \in AllReqs \ {r} :
                                                /\ req[q].pc \in {"calling", "ready"}
                                                /\ req[q].agent_did = agent_did]]
    /\ UNCHANGED <<now, cache>>

\* The remote call completes: client.get raises, times out or has a response.
Reply(r, resp) ==
    /\ req[r].pc = "calling"
    /\ req' = [req EXCEPT ![r].pc = "ready", ![r].resp = resp]
    /\ UNCHANGED <<now, cache>>

\* Any answer of the remote service.
AnyReply(r) ==
    /\ req[r].pc = "calling"
    /\ \E resp \in Responses(req[r].agent_did[1]) : Reply(r, resp)

\* An answer among the few of the concurrent specification.
FewReply(r) ==
    /\ req[r].pc = "calling"
    /\ \E resp \in FewResponses(req[r].agent_did[1]) : Reply(r, resp)

\* Resume awaiting the remote call again, without bound, after a call that
\* raised or returned a non-success status.
Resume_Reawait(r) ==
    /\ req[r].pc = "ready"
    /\ LET resp == req[r].resp
           did == req[r].agent_did[1]
       IN  /\ cache' = IF VerifyCaches(resp)
                       THEN CachePut(did, VerifyResult(resp))
                       ELSE cache
           /\ req' = IF Branch(resp) \in {"raise", "status"}
                     THEN [req EXCEPT ![r].pc = "calling",
                                      ![r].resp = NoResponse]
                     ELSE [req EXCEPT ![r].pc = "closing",
                                      ![r].ret = VerifyResult(resp)]
    /\ UNCHANGED now

\* Resume calling the remote service again after a call that raised or
\* returned a non-success status.
Resume_Retry(r) ==
    /\ req[r].pc = "ready"
    /\ LET resp == req[r].resp
           did == req[r].agent_did[1]
       IN  /\ cache' = IF VerifyCaches(resp)
                       THEN CachePut(did, VerifyResult(resp))
                       ELSE cache
           /\ req' = IF Branch(resp) \in {"raise", "status"}
                     THEN [req EXCEPT ![r].pc = "calling",
                                      ![r].calls = req[r].calls + 1]
                     ELSE [req EXCEPT ![r].pc = "closing",
                                      ![r].ret = VerifyResult(resp)]
    /\ UNCHANGED now

\* The coroutine is resumed and runs lines 69-85 up to the exit of
\* `async with`.
Resume(r) ==
    /\ req[r].pc = "ready"
    /\ LET resp == req[r].resp
           did == req[r].agent_did[1]
       IN  /\ cache' = IF VerifyCaches(resp)
                       THEN CachePut(did, VerifyResult(resp))
                       ELSE cache
           /\ req' = [req EXCEPT ![r].pc = "closing",
                                 ![r].ret = VerifyResult(resp)]
    /\ UNCHANGED now

\* The client is closed, verify_agent returns and the gate finishes.
Return(r) ==
    /\ req[r].pc = "closing"
    /\ req' = [req EXCEPT ![r].pc = "done",
                          ![r].out = GateTail(req[r].gate, req[r].agent_did,
                                              req[r].ret)]
    /\ UNCHANGED <<now, cache>>

\* The request is answered; the slot takes the next request.
Finish(r) ==
    /\ req[r].pc = "done"
    /\ req' = [req EXCEPT ![r] = Idle]
    /\ UNCHANGED <<now, cache>>

\* datetime.now() advances.
Tick ==
    /\ now < MaxNow
    /\ now' = now + 1
    /\ UNCHANGED <<cache, req>>

\* One request at a time, every gate, header combination and answer.
Next ==
    \/ \E r \in Reqs, gate \in Gates, h1 \in HeaderValues, h2 \in HeaderValues :
            Receive(r, gate, h1, h2)
    \/ \E r \in Reqs : Enter(r)
    \/ \E r \in Reqs : AnyReply(r)
    \/ \E r \in Reqs : Resume(r)
    \/ \E r \in Reqs : Return(r)
    \/ \E r \in Reqs : Finish(r)
    \/ Tick

Spec == Init /\ [][Next]_vars

\* Two overlapping requests through the optional gate, each with the primary
\* header only, and three answers of the remote service.
NextConc ==
    \/ \E r \in ConcReqs, d \in DIDs : Receive(r, "optional", Some(d), None)
    \/ \E r \in ConcReqs : Enter(r)
    \/ \E r \in ConcReqs : FewReply(r)
    \/ \E r \in ConcReqs : Resume(r)
    \/ \E r \in ConcReqs : Return(r)
    \/ \E r \in ConcReqs : Finish(r)
    \/ Tick

SpecConc == Init /\ [][NextConc]_vars

-----------------------------------------------------------------------------
(* Vocabulary of the properties *)

\* The identifier verify_agent was called with (None: it was not called).
Key(r) == req[r].agent_did

\* The remote call failed: client.get raised, the body is no JSON object,
\* or a truthy flag came with a body that does not validate.
CallFailed(resp) ==
    \/ resp.exc
    \/ /\ resp.status_code = HTTP_OK
       /\ \/ ~resp.json_ok
          \/ /\ JTruthy(DictGet(resp.data, "verified"))
             /\ ~ValidationOk(resp.data)

\* The remote service answered with the success status and verified = true.
SaysVerified(resp) ==
    /\ ~resp.exc
    /\ resp.status_code = HTTP_OK
    /\ resp.json_ok
    /\ DictGet(resp.data, "verified") = JBool(TRUE)

\* The JSON type a field of the record is declared with.
JsonTag(f) ==
    CASE FieldType[f] = "bool" -> "bool"
      [] FieldType[f] = "str" -> "str"
      [] OTHER -> "num"

\* Every field of the record is in the body, with the declared JSON type.
WellTyped(data) ==
    /\ FieldNames \subseteq DOMAIN data
    /\ \A f \in FieldNames : data[f][1] = JsonTag(f)

\* Every field of record `agent` equals the body's field of that name.
Verbatim(agent, data) ==
    \A f \in FieldNames : f \in DOMAIN data /\ data[f] = <<JsonTag(f), agent[f]>>

-----------------------------------------------------------------------------
(* Cache hit *)

\* C1: a verify(k) call made while now < t + TTL, t the time k's entry was
\* written, is answered in the same step with zero remote calls and returns
\* the value stored in the entry, a stored absence included.
C1_CacheHit ==
    [][\A r \in AllReqs :
          LET k == req'[r].agent_did
          IN  (/\ req[r].pc = "received"
               /\ req'[r].pc # "received"
               /\ StrTruthy(k)
               /\ k[1] \in DOMAIN cache
               /\ now < cache[k[1]][1] + CACHE_TTL)
              => /\ req'[r].pc = "done"
                 /\ req'[r].via = "cache"
                 /\ req'[r].calls = 0
                 /\ req'[r].ret = cache[k[1]][2]]_vars

\* A request answered from a cached negative.
C1_Witness ==
    \E r \in AllReqs :
        /\ req[r].pc = "done"
        /\ req[r].via = "cache"
        /\ req[r].calls = 0
        /\ req[r].ret = None
        /\ cache[Key(r)[1]][2] = None

\* C2: a verify(k) call made when now >= t + TTL (now = t + TTL included)
\* issues a remote call and returns nothing in that step, whatever the entry
\* holds; a record it returns later was built from an approving response.
C2_CacheExpiry ==
    [][\A r \in AllReqs :
          LET k == req'[r].agent_did
          IN  /\ (/\ req[r].pc = "received"
                  /\ req'[r].pc # "received"
                  /\ StrTruthy(k)
                  /\ k[1] \in DOMAIN cache
                  /\ now >= cache[k[1]][1] + CACHE_TTL)
                 => /\ req'[r].pc = "calling"
                    /\ req'[r].via = "remote"
                    /\ req'[r].calls = 1
                    /\ req'[r].ret = None
                    /\ req'[r].out = NoOutcome
              /\ (/\ req[r].pc = "ready"
                  /\ req'[r].pc # "ready"
                  /\ req'[r].ret # None)
                 => /\ req[r].resp.status_code = HTTP_OK
                    /\ req[r].resp.json_ok
                    /\ JTruthy(DictGet(req[r].resp.data, "verified"))]_vars

\* A remote call in flight at the boundary now = t + TTL, over a stored
\* absence.
C2_Witness ==
    \E r \in AllReqs :
        /\ req[r].pc = "calling"
        /\ req[r].known
        /\ req[r].calls = 1
        /\ cache[Key(r)[1]][2] = None
        /\ now = cache[Key(r)[1]][1] + CACHE_TTL

-----------------------------------------------------------------------------
(* First verification of an identifier *)

\* verify_agent caches what it returns on this response.
Cacheable(resp) ==
    /\ ~resp.exc
    /\ resp.status_code = HTTP_OK
    /\ resp.json_ok
    /\ \/ ~JTruthy(DictGet(resp.data, "verified"))
       \/ ValidationOk(resp.data)

\* C3 as stated: a verify() of an identifier without a cache entry issues
\* exactly one remote call and, once it has returned, the cache holds an
\* entry for the identifier whose value is the value returned.
C3_Original ==
    \A r \in AllReqs :
        (/\ req[r].pc = "done"
         /\ req[r].via = "remote"
         /\ ~req[r].known)
        => /\ req[r].calls = 1
           /\ Key(r)[1] \in DOMAIN cache
           /\ cache[Key(r)[1]][2] = req[r].ret

\* C3 as amended: a verify() of an identifier without a cache entry issues
\* exactly one remote call; on a success-status answer whose flag is falsy,
\* or truthy with a body that validates, it stores the value it returns
\* under the identifier with the current time; on any other outcome it
\* returns absence and leaves the cache as it is.
C3_Amended ==
    [][\A r \in AllReqs :
          LET k == req'[r].agent_did
          IN  /\ (/\ req[r].pc = "received"
                  /\ req'[r].pc # "received"
                  /\ StrTruthy(k)
                  /\ k[1] \notin DOMAIN cache)
                 => /\ req'[r].pc = "calling"
                    /\ ~req'[r].known
                    /\ req'[r].calls = 1
              /\ (req[r].pc \in {"calling", "ready", "closing"} /\ ~req[r].known)
                 => req'[r].calls = 1
              /\ (/\ req[r].pc = "ready"
                  /\ req'[r].pc # "ready"
                  /\ ~req[r].known)
                 => IF Cacheable(req[r].resp)
                    THEN /\ k[1] \in DOMAIN cache'
                         /\ cache'[k[1]] = <<now, req'[r].ret>>
                    ELSE /\ cache' = cache
                         /\ req'[r].ret = None]_vars

\* A first verification that was denied, with the absence cached.
C3_Witness ==
    \E r \in AllReqs :
        /\ req[r].pc = "done"
        /\ req[r].via = "remote"
        /\ ~req[r].known
        /\ req[r].calls = 1
        /\ req[r].ret = None
        /\ Key(r)[1] \in DOMAIN cache
        /\ cache[Key(r)[1]][2] = None

-----------------------------------------------------------------------------
(* Required-Identity Gate *)

RequireGates == {"require", "reputation"}

\* C4: when require_agent has called verify() and verify() returned absence
\* (denial, non-success status, failed call or fresh cached negative), the
\* request ends with the 401 "Agent not verified" signal carrying the
\* submitted identifier, and yields no record.
C4_FailClosed ==
    \A r \in AllReqs :
        (/\ req[r].pc = "done"
         /\ req[r].gate \in RequireGates
         /\ req[r].via # "none"
         /\ req[r].ret = None)
        => /\ req[r].out.kind = "raise"
           /\ req[r].out.status_code = 401
           /\ req[r].out.error = "Agent not verified"
           /\ req[r].out.value = None
           /\ req[r].out.did = Key(r)
           /\ req[r].out.did \in {req[r].x_agent_did, req[r].x_agent_identity}

\* A required-identity request refused after the remote call raised.
C4_Witness ==
    \E r \in AllReqs :
        /\ req[r].pc = "done"
        /\ req[r].gate = "require"
        /\ req[r].via = "remote"
        /\ req[r].resp.exc
        /\ req[r].out.status_code = 401
        /\ req[r].out.did = req[r].x_agent_did

\* C5: require_agent with neither header sent ends in its first step with
\* the 401 "Agent identity required" signal, issues no remote call and
\* leaves the cache unchanged.
C5_MissingCredential ==
    [][\A r \in AllReqs :
          (/\ req[r].pc = "received"
           /\ req'[r].pc # "received"
           /\ req[r].gate \in RequireGates
           /\ req[r].x_agent_did = None
           /\ req[r].x_agent_identity = None)
          => /\ req'[r].pc = "done"
             /\ req'[r].out.kind = "raise"
             /\ req'[r].out.status_code = 401
             /\ req'[r].out.error = "Agent identity required"
             /\ req'[r].out.value = None
             /\ req'[r].via = "none"
             /\ req'[r].calls = 0
             /\ cache' = cache]_vars

\* A request without headers refused while the cache holds an entry.
C5_Witness ==
    \E r \in AllReqs :
        /\ req[r].pc = "done"
        /\ req[r].gate = "require"
        /\ req[r].x_agent_did = None
        /\ req[r].x_agent_identity = None
        /\ req[r].out.error = "Agent identity required"
        /\ req[r].calls = 0
        /\ cache # <<>>

-----------------------------------------------------------------------------
(* Failed calls and non-success statuses *)

\* C6: when the remote call fails (client.get raises, the body is no JSON
\* object or does not validate), verify() returns absence to its caller and
\* the step leaves the cache, a stale entry of the identifier included, as
\* it was.
C6_TransportFailure ==
    [][\A r \in AllReqs :
          (/\ req[r].pc = "ready"
           /\ req'[r].pc # "ready"
           /\ CallFailed(req[r].resp))
          => /\ req'[r].pc = "closing"
             /\ req'[r].ret = None
             /\ req'[r].out = NoOutcome
             /\ cache' = cache]_vars

\* A call that raised over a stale approving entry, which is still stored.
C6_Witness ==
    \E r \in AllReqs :
        /\ req[r].pc = "closing"
        /\ req[r].resp.exc
        /\ req[r].ret = None
        /\ req[r].known
        /\ cache[Key(r)[1]][2] # None

\* C7: on a response whose status is not 200, verify() returns absence and
\* the step writes nothing to the cache, so that the identifier has no
\* fresh entry afterwards and its next verify() calls the remote service.
C7_NonSuccessStatus ==
    [][\A r \in AllReqs :
          LET k == req[r].agent_did[1]
          IN  (/\ req[r].pc = "ready"
               /\ req'[r].pc # "ready"
               /\ ~req[r].resp.exc
               /\ req[r].resp.status_code # HTTP_OK)
              => /\ req'[r].ret = None
                 /\ cache' = cache
                 /\ ~(k \in DOMAIN cache' /\ now' < cache'[k][1] + CACHE_TTL)]_vars

\* A request answered with status 500 whose identifier has no entry.
C7_Witness ==
    \E r \in AllReqs :
        /\ req[r].pc = "done"
        /\ req[r].resp.status_code = 500
        /\ req[r].ret = None
        /\ Key(r)[1] \notin DOMAIN cache

-----------------------------------------------------------------------------
(* Required-Identity Gate: success *)

\* C8 as stated: when the remote service answers success with
\* verified = true, require_agent yields a record whose every field equals
\* the field of the response, and the cache holds that record under the
\* submitted identifier.
C8_Original ==
    \A r \in AllReqs :
        (/\ req[r].pc = "done"
         /\ req[r].gate = "require"
         /\ req[r].via = "remote"
         /\ SaysVerified(req[r].resp))
        => /\ req[r].out.kind = "yield"
           /\ req[r].out.value # None
           /\ Verbatim(req[r].out.value[1], req[r].resp.data)
           /\ Key(r)[1] \in DOMAIN cache
           /\ cache[Key(r)[1]][2] = req[r].out.value

\* C8 as amended: when the remote service answers success with
\* verified = true and a body that has the eight fields of the record, each
\* of its declared JSON type, verify() builds a record whose every field
\* equals the field of the response and stores it under the submitted
\* identifier with the current time, and require_agent yields that record.
C8_Amended ==
    [][\A r \in AllReqs :
          LET k == req[r].agent_did[1]
          IN  /\ (/\ req[r].pc = "ready"
                  /\ req'[r].pc # "ready"
                  /\ SaysVerified(req[r].resp)
                  /\ WellTyped(req[r].resp.data))
                 => /\ req'[r].ret # None
                    /\ Verbatim(req'[r].ret[1], req[r].resp.data)
                    /\ k \in DOMAIN cache'
                    /\ cache'[k] = <<now, req'[r].ret>>
              /\ (/\ req[r].pc = "closing"
                  /\ req'[r].pc # "closing"
                  /\ req[r].gate = "require"
                  /\ req[r].ret # None)
                 => /\ req'[r].pc = "done"
                    /\ req'[r].out.kind = "yield"
                    /\ req'[r].out.value = req[r].ret
                    /\ req'[r].out.did = None]_vars

\* A required-identity request that yielded the record of the response.
C8_Witness ==
    \E r \in AllReqs :
        /\ req[r].pc = "done"
        /\ req[r].gate = "require"
        /\ req[r].via = "remote"
        /\ SaysVerified(req[r].resp)
        /\ WellTyped(req[r].resp.data)
        /\ req[r].out.kind = "yield"
        /\ Verbatim(req[r].out.value[1], req[r].resp.data)
        /\ cache[Key(r)[1]][2] = req[r].out.value

-----------------------------------------------------------------------------
(* Optional-Identity Gate *)

\* C9 as stated: optional_agent never raises; with no header sent it yields
\* absence with zero remote calls; with a header sent it calls verify() and
\* yields what verify() returns.
C9_Original ==
    \A r \in AllReqs :
        (req[r].pc = "done" /\ req[r].gate = "optional")
        => /\ req[r].out.kind = "yield"
           /\ IF req[r].x_agent_did = None /\ req[r].x_agent_identity = None
              THEN /\ req[r].out.value = None
                   /\ req[r].calls = 0
              ELSE /\ req[r].via # "none"
                   /\ req[r].out.value = req[r].ret

\* C9 as amended: optional_agent never raises; when neither header holds a
\* non-empty value (not sent, or sent empty) it yields absence with zero
\* remote calls and without calling verify(); when one does it calls
\* verify() and yields what verify() returns.
C9_Amended ==
    \A r \in AllReqs :
        (req[r].pc = "done" /\ req[r].gate = "optional")
        => /\ req[r].out.kind = "yield"
           /\ req[r].out.status_code = 0
           /\ IF StrTruthy(req[r].x_agent_did) \/ StrTruthy(req[r].x_agent_identity)
              THEN /\ req[r].via # "none"
                   /\ req[r].out.value = req[r].ret
              ELSE /\ req[r].via = "none"
                   /\ req[r].out.value = None
                   /\ req[r].calls = 0

\* An optional-identity request that yielded absence after the remote call
\* raised.
C9_Witness ==
    \E r \in AllReqs :
        /\ req[r].pc = "done"
        /\ req[r].gate = "optional"
        /\ req[r].via = "remote"
        /\ req[r].resp.exc
        /\ req[r].out = Yield(None)

-----------------------------------------------------------------------------
(* Reputation-Threshold Gate *)

\* C10: the gate with threshold T on a record r given by require_agent
\* yields r unchanged when r.reputation >= T, and when r.reputation < T
\* raises the 403 "Insufficient reputation" signal carrying T and
\* r.reputation; nothing else.
C10_ReputationThreshold ==
    \A r \in AllReqs :
        (/\ req[r].pc = "done"
         /\ req[r].gate = "reputation"
         /\ req[r].ret # None)
        => IF req[r].ret[1].reputation >= MIN_REPUTATION
           THEN req[r].out = Yield(req[r].ret)
           ELSE /\ req[r].out.kind = "raise"
                /\ req[r].out.status_code = 403
                /\ req[r].out.error = "Insufficient reputation"
                /\ req[r].out.message[2] = MIN_REPUTATION
                /\ req[r].out.your_reputation = Some(req[r].ret[1].reputation)
                /\ req[r].out.value = None

\* A record whose reputation equals the threshold passes the gate.
C10_Witness ==
    \E r \in AllReqs :
        /\ req[r].pc = "done"
        /\ req[r].gate = "reputation"
        /\ req[r].ret # None
        /\ req[r].ret[1].reputation = MIN_REPUTATION
        /\ req[r].out = Yield(req[r].ret)

-----------------------------------------------------------------------------
(* Ordering in the Reputation-Threshold Gate *)

\* Thresholds a route can be declared with: below, among and above the
\* scores.
Thresholds == 0 .. (MIN_REPUTATION + 2)

\* C11: the reputation gate compares with the threshold only a record that
\* require_agent yielded.  When no identifier was sent it fails with the 401
\* "Agent identity required" signal, when the identifier is not verified with
\* the 401 "Agent not verified" signal; a 403 "Insufficient reputation" signal
\* is raised only over a record, and for an unverified identifier under no
\* threshold.
C11_GateOrdering ==
    \A r \in AllReqs :
        (req[r].pc = "done" /\ req[r].gate = "reputation")
        => /\ req[r].via = "none" => req[r].out = IdentityRequired
           /\ (req[r].via # "none" /\ req[r].ret = None)
              => /\ req[r].out = NotVerified(req[r].agent_did)
                 /\ \A T \in Thresholds :
                        ReputationTail(RequireAgentTail(req[r].agent_did, None), T)
                            = NotVerified(req[r].agent_did)
           /\ req[r].out.status_code = 403
              => /\ req[r].via # "none"
                 /\ req[r].ret # None
                 /\ req[r].out.your_reputation = Some(req[r].ret[1].reputation)

\* A reputation-gated request whose identifier the remote service denied,
\* refused with the 401 signal.
C11_Witness ==
    \E r \in AllReqs :
        /\ req[r].pc = "done"
        /\ req[r].gate = "reputation"
        /\ req[r].via = "remote"
        /\ req[r].resp = Answer(DeniedBody)
        /\ req[r].ret = None
        /\ req[r].out.status_code = 401
        /\ req[r].out.error = "Agent not verified"

-----------------------------------------------------------------------------
(* Header precedence *)

\* C12 as stated: whenever X-Agent-DID is present, verify() is called with
\* its value, whatever X-Agent-Identity contains; the value of
\* X-Agent-Identity is used only when X-Agent-DID is not present.
C12_Original ==
    \A r \in AllReqs :
        req[r].via # "none"
        => /\ req[r].x_agent_did # None => req[r].agent_did = req[r].x_agent_did
           /\ req[r].agent_did # req[r].x_agent_did => req[r].x_agent_did = None

\* C12 as amended: in every gate, whenever X-Agent-DID holds a non-empty
\* value, verify() is called with that value, whatever X-Agent-Identity
\* contains; the value of X-Agent-Identity is used only when X-Agent-DID is
\* not sent or is empty, and then only if it is itself non-empty; with no
\* non-empty value verify() is not called.
C12_Amended ==
    \A r \in AllReqs :
        req[r].pc \notin {"idle", "received"}
        => IF StrTruthy(req[r].x_agent_did)
           THEN req[r].via # "none" /\ req[r].agent_did = req[r].x_agent_did
           ELSE IF StrTruthy(req[r].x_agent_identity)
           THEN req[r].via # "none" /\ req[r].agent_did = req[r].x_agent_identity
           ELSE req[r].via = "none"

\* verify() called with the value of X-Agent-DID while X-Agent-Identity
\* holds another identifier.
C12_Witness ==
    \E r \in AllReqs :
        /\ req[r].via = "remote"
        /\ StrTruthy(req[r].x_agent_did)
        /\ StrTruthy(req[r].x_agent_identity)
        /\ req[r].x_agent_identity # req[r].x_agent_did
        /\ req[r].agent_did = req[r].x_agent_did

-----------------------------------------------------------------------------
(* Uncoordinated concurrent misses *)

\* Request q has a remote call in flight: issued, its response not yet
\* processed.
InFlight(q) == req[q].pc \in {"calling", "ready"}

\* Request q is inside verify_agent past the cache check: its call is in
\* flight or it is closing the client.
Pending(q) == req[q].pc \in {"calling", "ready", "closing"}

\* Request r makes a step out of `pc`.
Leaves(r, pc) == req[r].pc = pc /\ req'[r].pc # pc

\* verify(k) finds no fresh entry for k.
Miss(k) == k \notin DOMAIN cache \/ now >= cache[k][1] + CACHE_TTL

\* C13 as stated: while another request has a call in flight for the same
\* identifier, a request that misses the cache issues its own remote call
\* without waiting, and a request whose call completes writes the cache with
\* what it returns.
C13_Original ==
    [][\A r \in AllReqs : \A q \in AllReqs \ {r} :
          LET k == req'[r].agent_did
          IN  (InFlight(q) /\ req[q].agent_did = k)
              => /\ (Leaves(r, "received") /\ Miss(k[1]))
                    => /\ req'[r].pc = "calling"
                       /\ req'[r].calls = 1
                       /\ req'[q] = req[q]
                 /\ Leaves(r, "ready")
                    => /\ k[1] \in DOMAIN cache'
                       /\ cache'[k[1]] = <<now, req'[r].ret>>]_vars

\* C13 as amended: while another request is inside verify() for the same
\* identifier, past its cache check, a request that misses the cache issues its own remote call
\* without waiting; each request builds what it returns from its own
\* response, and on completion writes the cache when that response is a
\* success-status approval or denial, and leaves the cache as it is when the
\* call failed.
C13_Amended ==
    [][\A r \in AllReqs : \A q \in AllReqs \ {r} :
          LET k == req'[r].agent_did
          IN  (Pending(q) /\ req[q].agent_did = k)
              => /\ (Leaves(r, "received") /\ Miss(k[1]))
                    => /\ req'[r].pc = "calling"
                       /\ req'[r].calls = 1
                       /\ req'[q] = req[q]
                 /\ Leaves(r, "ready")
                    => /\ req'[r].ret = VerifyResult(req[r].resp)
                       /\ req'[q] = req[q]
                       /\ IF Cacheable(req[r].resp)
                          THEN /\ k[1] \in DOMAIN cache'
                               /\ cache'[k[1]] = <<now, req'[r].ret>>
                          ELSE cache' = cache]_vars

\* Two requests that both missed the never-written entry of one identifier,
\* both answered by the remote service and both past the cache write.
C13_Witness ==
    /\ req["r1"].pc = "closing"
    /\ req["r2"].pc = "closing"
    /\ req["r1"].agent_did = req["r2"].agent_did
    /\ ~req["r1"].known
    /\ ~req["r2"].known
    /\ req["r1"].calls = 1
    /\ req["r2"].calls = 1
    /\ Cacheable(req["r1"].resp)
    /\ Cacheable(req["r2"].resp)

-----------------------------------------------------------------------------
(* At most one remote call *)

\* C14: a verify() invocation, and so a gate invocation, issues at most one
\* remote call per request: none when verify() was not called or answered
\* from the cache, exactly one otherwise, and not a second one after the
\* call raised, returned a non-success status or a denial.
C14_AtMostOneCall ==
    \A r \in AllReqs :
        /\ req[r].calls <= 1
        /\ req[r].calls = 1 <=> req[r].via = "remote"
        /\ (req[r].pc \in {"closing", "done"} /\ req[r].via = "remote")
           => /\ req[r].calls = 1
              /\ Branch(req[r].resp) # "approved" => req[r].ret = None

\* A request that ended after one remote call which returned a non-success
\* status.
C14_Witness ==
    \E r \in AllReqs :
        /\ req[r].pc = "done"
        /\ req[r].via = "remote"
        /\ Branch(req[r].resp) = "status"
        /\ req[r].calls = 1

-----------------------------------------------------------------------------
(* Cache entries are never removed *)

\* C15: the set of identifiers with a cache entry never shrinks, and an
\* entry changes only when a verify() of the same identifier processes its
\* response and overwrites it with the pair (current time, value returned).
C15_NeverRemoved ==
    [][/\ DOMAIN cache \subseteq DOMAIN cache'
       /\ \A k \in DOMAIN cache :
              cache'[k] # cache[k]
              => \E r \in AllReqs :
                     /\ Leaves(r, "ready")
                     /\ req[r].agent_did = Some(k)
                     /\ cache'[k] = <<now, req'[r].ret>>]_vars

\* An entry that expired is still stored while the entry of the other
\* identifier is overwritten.
C15_Witness ==
    \E k \in DOMAIN cache : \E j \in DOMAIN cache \ {k} :
        /\ now >= cache[k][1] + CACHE_TTL
        /\ cache[j][1] > cache[k][1]
        /\ \E r \in AllReqs : req[r].pc = "closing" /\ req[r].agent_did = Some(j) /\ req[r].known

-----------------------------------------------------------------------------
(* Every request terminates *)

\* One request at a time through every gate, with the primary header only
\* and three answers of the remote service.
NextFair ==
    \/ \E r \in Reqs, gate \in Gates, h1 \in HeaderValues : Receive(r, gate, h1, None)
    \/ \E r \in Reqs : Enter(r)
    \/ \E r \in Reqs : FewReply(r)
    \/ \E r \in Reqs : Resume(r)
    \/ \E r \in Reqs : Return(r)
    \/ \E r \in Reqs : Finish(r)
    \/ Tick

\* The scheduling the liveness of a request rests on: the framework runs the
\* dependency of a received request, the remote call completes, fails or
\* times out (timeout=10.0 on line 66), and the event loop resumes a
\* coroutine whose await has completed.
Fairness ==
    \A r \in Reqs :
        /\ WF_vars(Enter(r))
        /\ WF_vars(FewReply(r))
        /\ WF_vars(Resume(r))
        /\ WF_vars(Return(r))

FairSpec == Init /\ [][NextFair]_vars /\ Fairness

\* The gate invocation of request r has ended: it yielded a value or raised
\* its failure signal.
Ended(r) == req[r].pc = "done" /\ req[r].out.kind \in {"yield", "raise"}

\* C16 as stated, the part on suspension: a started invocation that has not
\* ended is suspended at the outbound remote call and nowhere else.
C16_Original ==
    \A r \in AllReqs :
        req[r].pc \notin {"idle", "received", "done"}
        => req[r].pc \in {"calling", "ready"}

\* C16 as amended: under fairness of the remote call and of the event loop,
\* every started gate invocation, with the verify() call inside it,
\* eventually yields a value or raises its failure signal; an invocation is
\* suspended only at the outbound remote call and, after its response has
\* been processed, at the closing of the HTTP client.
C16_Amended ==
    /\ \A r \in Reqs : (req[r].pc = "received") ~> Ended(r)
    /\ \A r \in Reqs : (req[r].pc \in {"calling", "ready", "closing"}) ~> Ended(r)
    /\ [][\A r \in Reqs :
             /\ Leaves(r, "received") => req'[r].pc \in {"calling", "done"}
             /\ Leaves(r, "calling") => req'[r].pc = "ready"
             /\ Leaves(r, "ready") => req'[r].pc = "closing"
             /\ Leaves(r, "closing") => Ended(r)']_vars

\* A reputation-gated request that ended with a signal after its remote call
\* raised.
C16_Witness ==
    \E r \in AllReqs :
        /\ Ended(r)
        /\ req[r].gate = "reputation"
        /\ req[r].via = "remote"
        /\ req[r].resp.exc
        /\ req[r].out.kind = "raise"

-----------------------------------------------------------------------------
(* Cache provenance *)

\* C17: an entry is written under k only by a verify(k) that processes a
\* success-status response to its own request for k; the value written is a
\* record only if the response's verification flag is true, and absence only
\* if the flag is false (a body without the flag counts as false); the
\* entries of the other identifiers stay as they are.
C17_Provenance ==
    [][\A k \in DOMAIN cache' :
          (k \notin DOMAIN cache \/ cache'[k] # cache[k])
          => \E r \in AllReqs :
                 /\ Leaves(r, "ready")
                 /\ req[r].agent_did = Some(k)
                 /\ ~req[r].resp.exc
                 /\ req[r].resp.status_code = HTTP_OK
                 /\ req[r].resp.json_ok
                 /\ \A j \in DOMAIN cache' \ {k} :
                        j \in DOMAIN cache /\ cache'[j] = cache[j]
                 /\ IF cache'[k][2] # None
                    THEN DictGet(req[r].resp.data, "verified") = JBool(TRUE)
                    ELSE DictGet(req[r].resp.data, "verified") \in {JBool(FALSE), JNull}]_vars

-----------------------------------------------------------------------------
(* Last completion wins *)

\* C18: when a verify() call processes its answer (approval or denial)
\* after another call for the same identifier has processed a different
\* one, the cache entry holds the answer processed last, with the time of
\* that processing, whichever of the two calls was issued first.
C18_LastCompletionWins ==
    [][\A r \in AllReqs : \A q \in AllReqs \ {r} :
          (/\ Leaves(r, "ready")
           /\ Cacheable(req[r].resp)
           /\ req[q].pc \in {"closing", "done"}
           /\ req[q].via = "remote"
           /\ Cacheable(req[q].resp)
           /\ req[q].agent_did = req[r].agent_did
           /\ req[q].ret # VerifyResult(req[r].resp))
          => /\ cache'[req[r].agent_did[1]] = <<now, VerifyResult(req[r].resp)>>
             /\ cache'[req[r].agent_did[1]][2] # req[q].ret
             /\ req'[r].ret = VerifyResult(req[r].resp)]_vars

\* The cache holds the positive record of the call issued first, processed
\* after the call issued later, while the first was in flight, was answered
\* with a denial.
C18_Witness ==
    \E r \in AllReqs : \E q \in AllReqs \ {r} :
        /\ req[r].pc = "closing"
        /\ req[q].pc \in {"closing", "done"}
        /\ req[q].via = "remote"
        /\ req[q].agent_did = req[r].agent_did
        /\ ~req[r].behind
        /\ req[q].behind
        /\ ~req[r].known
        /\ ~req[q].known
        /\ req[q].resp = Answer(DeniedBody)
        /\ req[q].ret = None
        /\ req[r].ret # None
        /\ cache[req[r].agent_did[1]][2] = req[r].ret

-----------------------------------------------------------------------------
(* Non-sliding TTL *)

\* C19: a verify() call answered from the cache leaves the cache as it is,
\* the entry's timestamp included; only the processing of a remote response
\* changes the cache, so an entry written at time t is served at no time
\* from t + TTL on, however many hits there were in between.
C19_NonSlidingTTL ==
    [][/\ \A r \in AllReqs :
              (Leaves(r, "received") /\ req'[r].via = "cache")
              => /\ cache' = cache
                 /\ now < cache[req'[r].agent_did[1]][1] + CACHE_TTL
       /\ cache' # cache => \E r \in AllReqs : Leaves(r, "ready")
       /\ \A r \in AllReqs : \A k \in DOMAIN cache :
              (/\ Leaves(r, "received")
               /\ req'[r].agent_did = Some(k)
               /\ now >= cache[k][1] + CACHE_TTL)
              => req'[r].via = "remote" /\ req'[r].pc = "calling"]_vars

\* A hit later than the write of the entry, which keeps the time of the
\* write.
C19_Witness ==
    \E r \in AllReqs :
        /\ req[r].pc = "done"
        /\ req[r].via = "cache"
        /\ now = cache[req[r].agent_did[1]][1] + CACHE_TTL - 1
        /\ now > cache[req[r].agent_did[1]][1]

====
